---- MODULE Spec2Model ----
(***************************************************************************)
(* A model of psst-gui/src/database.rs: the Web wrapper around the         *)
(* aspotify client.  Callers invoke the public operations of (clones of)   *)
(* one Web; every operation that talks to the Web API first runs           *)
(* Web::client (token_provider.get, then set_current_access_token), and    *)
(* the list operations run the loop of Web::with_paging.  The token        *)
(* provider, the remote API and the image host are the environment: they   *)
(* answer nondeterministically.                                            *)
(***************************************************************************)
EXTENDS Integers, Sequences, FiniteSets, TLC

\* Callers holding clones of one Web (#[derive(Clone)], the Arc fields are shared).
Procs == {1, 2}

None == "none"

\* let mut limit = 50;
PageSize == 50

\* Longest full result list the server holds for one query.
MaxTotal == 3
\* Largest page limit the server reports when it does not echo the request.
MaxLimit == 2
\* Longest full result list when two callers run concurrently.
MaxConcTotal == 2
\* Page requests one with_paging call may issue in the model; a source that
\* answers consistently needs at most max(1, total) of them.
MaxPages == MaxTotal + 1

PagedOps == {"load_saved_albums", "load_saved_tracks", "load_playlists",
             "load_playlist_tracks", "load_artist_albums"}
\* Operations that send one request and convert one DTO.
SingleDtoOps == {"load_album", "load_artist", "analyze_track"}
\* Operations that send one request and convert a list of DTOs.
SingleListOps == {"load_artist_top_tracks", "search"}
SingleOps == SingleDtoOps \cup SingleListOps
ApiOps == PagedOps \cup SingleOps
Ops == ApiOps \cup {"load_image"}

VARIABLES
    env,        \* the scenario: who may call, and what the server may answer
    token,      \* spotify: the client's current access token (shared by all clones)
    nextTok,    \* token_provider: the next token it hands out
    pc,         \* each caller's position in its operation
    op,         \* each caller's operation
    list,       \* the server's full result list for the caller's query (DTOs)
    results,    \* with_paging: let mut results
    limit,      \* with_paging: let mut limit
    offset,     \* with_paging: let mut offset
    acquired,   \* client: let access_token
    issued,     \* tokens the provider has returned to each caller's operation
    trail,      \* the last three events of each caller's operation
    nreq,       \* API requests each caller's operation has sent
    lastReq,    \* the last API request each caller sent
    lastPage,   \* the last page each caller received
    consistent, \* every page the caller received so far answered its request consistently
    status,     \* how the environment answered the caller's last call to it
    outcome     \* how the operation ended

vars == <<env, token, nextTok, pc, op, list, results, limit, offset, acquired,
          issued, trail, nreq, lastReq, lastPage, consistent, status, outcome>>

----------------------------------------------------------------------------
(* Values *)

Min(a, b) == IF a < b THEN a ELSE b

\* list[from+1 .. from+n], cut at the end of the list: items.skip(from).take(n)
Slice(s, from, n) ==
    IF from >= Len(s) THEN <<>> ELSE SubSeq(s, from + 1, Min(from + n, Len(s)))

\* A DTO of the external API.  id is the item's own id; sub tells whether every
\* simplified artist/album embedded in it carries an id (ArtistSimplified.id and
\* AlbumSimplified.id are Option<String>); ty separates PlaylistItemType::Track
\* from PlaylistItemType::Episode.
Dto(i, sub, ty) == [id |-> i, sub |-> sub, ty |-> ty]

Panic == [ty |-> "panic", id |-> 0]

\* What can be wrong with a DTO the operation receives.
BadKinds(o) ==
    CASE o = "load_playlist_tracks" -> {"noid", "episode"}
      [] o \in {"load_playlists", "load_artist", "analyze_track", "load_image"} -> {}
      [] OTHER -> {"noid"}

\* The full result list of length n whose b-th item (if any) is bad in way k.
MakeList(n, b, k) ==
    [i \in 1..n |->
        IF i # b THEN Dto(i, "some", "track")
        ELSE IF k = "noid" THEN Dto(i, None, "track")
        ELSE Dto(i, "some", "episode")]

Lists(o, anyDto, maxTotal) ==
    LET lens == IF o \in SingleDtoOps THEN {1}
                ELSE IF o = "load_image" THEN {0} ELSE 0..maxTotal
    IN  {MakeList(n, 0, "noid") : n \in lens}
        \cup (IF ~anyDto THEN {}
              ELSE UNION {{MakeList(n, b, k) : b \in 1..n, k \in BadKinds(o)} : n \in lens})

----------------------------------------------------------------------------
(* Converters *)

\* impl From<aspotify::ArtistSimplified> for Artist: id: artist.id.unwrap()
ArtistSimplified_into(sub) == IF sub = None THEN "panic" ELSE "ok"

\* impl From<aspotify::AlbumSimplified> for Album: id: album.id.unwrap(), and
\* its artists are ArtistSimplified
AlbumSimplified_into(sub) ==
    IF sub = None \/ ArtistSimplified_into(sub) = "panic" THEN "panic" ELSE "ok"

\* impl From<aspotify::Artist> for Artist
Artist_into(d) == [ty |-> "Artist", id |-> d.id]

\* impl From<aspotify::Album> for Album: artists are ArtistSimplified
Album_into(d) ==
    IF ArtistSimplified_into(d.sub) = "panic" THEN Panic ELSE [ty |-> "Album", id |-> d.id]

\* impl From<aspotify::ArtistsAlbum> for Album: artists are ArtistSimplified
ArtistsAlbum_into(d) ==
    IF ArtistSimplified_into(d.sub) = "panic" THEN Panic ELSE [ty |-> "Album", id |-> d.id]

\* impl From<aspotify::Track> for Track: album is AlbumSimplified, artists are
\* ArtistSimplified
Track_into(d) ==
    IF AlbumSimplified_into(d.sub) = "panic" \/ ArtistSimplified_into(d.sub) = "panic"
    THEN Panic ELSE [ty |-> "Track", id |-> d.id]

\* impl From<aspotify::PlaylistSimplified> for Playlist
PlaylistSimplified_into(d) == [ty |-> "Playlist", id |-> d.id]

\* impl From<aspotify::AudioAnalysis> for AudioAnalysis
AudioAnalysis_into(d) == [ty |-> "AudioAnalysis", id |-> d.id]

\* load_playlist_tracks' map_fn: PlaylistItemType::Episode(_) => unimplemented!()
PlaylistItem_map(d) == IF d.ty = "episode" THEN Panic ELSE Track_into(d)

\* search converts artists (Artist), albums (AlbumSimplified) and tracks (Track);
\* the three lists are folded into one whose items stand for an album or a track.
Search_map(d) ==
    IF AlbumSimplified_into(d.sub) = "panic" THEN Panic ELSE Track_into(d)

\* The map_fn (or the conversion) each operation applies to one DTO.
map_fn(o, d) ==
    CASE o = "load_album" -> Album_into(d)
      [] o = "load_artist" -> Artist_into(d)
      [] o = "load_saved_albums" -> Album_into(d)
      [] o = "load_saved_tracks" -> Track_into(d)
      [] o = "load_playlists" -> PlaylistSimplified_into(d)
      [] o = "load_playlist_tracks" -> PlaylistItem_map(d)
      [] o = "load_artist_albums" -> ArtistsAlbum_into(d)
      [] o = "load_artist_top_tracks" -> Track_into(d)
      [] o = "search" -> Search_map(d)
      [] o = "analyze_track" -> AudioAnalysis_into(d)

\* items.into_iter().map(map_fn): the mapped items.
MapAll(o, items) == [i \in 1..Len(items) |-> map_fn(o, items[i])]

Panics(mapped) == \E i \in 1..Len(mapped) : mapped[i] = Panic

----------------------------------------------------------------------------
(* Errors and outcomes *)

\* Error::WebApiError(Box::new(cause))
WebApiError(cause) == [variant |-> "WebApiError", cause |-> cause]

\* impl From<aspotify::Error> for Error
From_aspotify_Error == WebApiError("aspotify::Error")
\* impl From<reqwest::Error> for Error
From_reqwest_Error == WebApiError("reqwest::Error")
\* impl From<image::ImageError> for Error
From_image_Error == WebApiError("image::ImageError")
\* client: .map_err(|err| Error::WebApiError(Box::new(err)))
From_token_Error == WebApiError("token")

NoError == [variant |-> None, cause |-> None]
NoOutcome == [kind |-> "none", value |-> <<>>, error |-> NoError]
Ok(v) == [kind |-> "ok", value |-> v, error |-> NoError]
Err(e) == [kind |-> "err", value |-> <<>>, error |-> e]
\* A panic unwinds out of the operation: it returns nothing.
Panicked == [kind |-> "panic", value |-> <<>>, error |-> NoError]

\* aspotify::Client::new(dummy_credentials): the client holds no token yet.
NoToken == 0

NoPage == [offset |-> 0, limit |-> 0, total |-> 0, n |-> 0]
\* A request as the server sees it (limit, offset, the client's token), with what
\* the caller held when it sent it: the page before (prev) and results.len() (have).
Request(lim, off, tok, prev, have) ==
    [limit |-> lim, offset |-> off, token |-> tok, prev |-> prev, have |-> have]
NoReq == Request(0, 0, NoToken, NoPage, 0)

Push3(t, e) == IF Len(t) < 3 THEN Append(t, e) ELSE Append(Tail(t), e)
Event(ev, tok) == [ev |-> ev, tok |-> tok]

----------------------------------------------------------------------------
(* The remote API: the pages it may answer a page request with *)

Page(o, lim, t, items) == [offset |-> o, limit |-> lim, total |-> t, items |-> items]

\* The limit a well-behaved server reports for a requested limit: the request's
\* own, or its maximum page size when that is smaller.
ConsistentLimits(reqLimit) ==
    IF reqLimit = 0 THEN {0} ELSE (1..Min(reqLimit, MaxLimit)) \cup {reqLimit}

\* A page that answers the request consistently: it reports the requested
\* offset, the list's length as total, and holds the list's items from that
\* offset, as many as its reported limit allows.
ConsistentPages(l, reqLimit, reqOffset) ==
    {Page(reqOffset, lim, Len(l), Slice(l, reqOffset, lim)) : lim \in ConsistentLimits(reqLimit)}

\* Any page the server could send: Page<U> is deserialized as it comes.  The
\* server answers at most one page request of a call this way (Pages).
ArbitraryPages(l) ==
    {Page(o, lim, t, Slice(l, o, n)) :
        o \in 0..MaxTotal, lim \in (0..MaxLimit) \cup {PageSize},
        t \in 0..MaxTotal, n \in 0..MaxLimit}

Pages(p) ==
    ConsistentPages(list[p], limit[p], offset[p])
    \cup (IF env.anyPage /\ consistent[p] THEN ArbitraryPages(list[p]) ELSE {})

PageMeta(page) ==
    [offset |-> page.offset, limit |-> page.limit, total |-> page.total, n |-> Len(page.items)]

----------------------------------------------------------------------------
(* Web::new *)

new ==
    /\ token = NoToken
    /\ nextTok = 1
    /\ pc = [p \in Procs |-> "idle"]
    /\ op = [p \in Procs |-> None]
    /\ list = [p \in Procs |-> <<>>]
    /\ results = [p \in Procs |-> <<>>]
    /\ limit = [p \in Procs |-> 0]
    /\ offset = [p \in Procs |-> 0]
    /\ acquired = [p \in Procs |-> NoToken]
    /\ issued = [p \in Procs |-> {}]
    /\ trail = [p \in Procs |-> <<>>]
    /\ nreq = [p \in Procs |-> 0]
    /\ lastReq = [p \in Procs |-> NoReq]
    /\ lastPage = [p \in Procs |-> NoPage]
    /\ consistent = [p \in Procs |-> TRUE]
    /\ status = [p \in Procs |-> None]
    /\ outcome = [p \in Procs |-> NoOutcome]

Scenario(callers, anyPage, anyDto, maxTotal) ==
    [callers |-> callers, anyPage |-> anyPage, anyDto |-> anyDto, maxTotal |-> maxTotal]

\* One caller, against a server that may answer any page and any DTO.
Init == env = Scenario({1}, TRUE, TRUE, MaxTotal) /\ new

\* One caller, against a server whose pages answer the requests consistently.
InitConsistent == env = Scenario({1}, FALSE, TRUE, MaxTotal) /\ new

\* Two callers on clones of one Web, against a well-behaved server.
InitConc == env = Scenario(Procs, FALSE, FALSE, MaxConcTotal) /\ new

----------------------------------------------------------------------------
(* A caller invokes a public operation *)

\* let mut limit = 50;
FirstLimit == PageSize
\* let mut offset = 0;
FirstOffset == 0

Call(p) ==
    /\ pc[p] = "idle"
    /\ p \in env.callers
    /\ \E o \in Ops : \E l \in Lists(o, env.anyDto, env.maxTotal) :
        /\ op' = [op EXCEPT ![p] = o]
        /\ list' = [list EXCEPT ![p] = l]
        /\ limit' = [limit EXCEPT ![p] = IF o \in PagedOps THEN FirstLimit ELSE 0]
        /\ offset' = [offset EXCEPT ![p] = IF o \in PagedOps THEN FirstOffset ELSE 0]
        /\ pc' = [pc EXCEPT ![p] = IF o = "load_image" THEN "fetch" ELSE "get"]
    /\ results' = [results EXCEPT ![p] = <<>>]
    /\ UNCHANGED <<env, token, nextTok, acquired, issued, trail, nreq, lastReq,
                   lastPage, consistent, status, outcome>>

----------------------------------------------------------------------------
(* Web::client *)

\* token_provider.get(&self.session) returned Ok(access_token)
client_get_ok(p) ==
    /\ acquired' = [acquired EXCEPT ![p] = nextTok]
    /\ issued' = [issued EXCEPT ![p] = @ \cup {nextTok}]
    /\ nextTok' = nextTok + 1
    /\ trail' = [trail EXCEPT ![p] = Push3(@, Event("get", nextTok))]
    /\ pc' = [pc EXCEPT ![p] = "set"]
    /\ status' = [status EXCEPT ![p] = "token_ok"]
    /\ UNCHANGED <<token, outcome>>

\* Faulty variant: the failure path also resets the client's token.
client_get_err_clears(p) ==
    /\ outcome' = [outcome EXCEPT ![p] = Err(From_token_Error)]
    /\ pc' = [pc EXCEPT ![p] = "done"]
    /\ status' = [status EXCEPT ![p] = "token_err"]
    /\ token' = NoToken
    /\ UNCHANGED <<nextTok, acquired, issued, trail>>

\* token_provider.get(&self.session) returned Err: .map_err(...)? returns it
client_get_err(p) ==
    /\ outcome' = [outcome EXCEPT ![p] = Err(From_token_Error)]
    /\ pc' = [pc EXCEPT ![p] = "done"]
    /\ status' = [status EXCEPT ![p] = "token_err"]
    /\ UNCHANGED <<token, nextTok, acquired, issued, trail>>

client_get(p) ==
    /\ pc[p] = "get"
    /\ (client_get_ok(p) \/ client_get_err(p))
    /\ UNCHANGED <<env, op, list, results, limit, offset, nreq, lastReq, lastPage,
                   consistent>>

\* Faulty variant: the acquired token is never installed.
set_keeps_token(cur, access_token) == cur

\* The token set_current_access_token leaves in the client.
set_current_access_token(cur, access_token) == access_token

\* self.spotify.set_current_access_token(...).await; Ok(self.spotify.as_ref())
client_set(p) ==
    /\ pc[p] = "set"
    /\ token' = set_current_access_token(token, acquired[p])
    /\ trail' = [trail EXCEPT ![p] = Push3(@, Event("set", token'))]
    /\ pc' = [pc EXCEPT ![p] = "send"]
    /\ UNCHANGED <<env, nextTok, op, list, results, limit, offset, acquired, issued,
                   nreq, lastReq, lastPage, consistent, status, outcome>>

----------------------------------------------------------------------------
(* Web::with_paging *)

\* results.extend(page.items.into_iter().map(&map_fn))
extend(res, mapped) == res \o mapped

\* Faulty variant: compares total with the page's own item count.
more_compares_page(page, res) == page.total > Len(page.items)

\* Faulty variant: >= for >.
more_or_equal(page, res) == page.total >= Len(res)

\* if page.total > results.len()
more(page, res) == page.total > Len(res)

\* Faulty variant: the limit stays what it was.
next_limit_keeps(cur, page) == cur

\* limit = page.limit;
next_limit(cur, page) == page.limit

\* Faulty variant: the page's offset is forgotten.
next_offset_without_base(page) == page.limit

\* Faulty variant: advances by the items carried, not by the limit.
next_offset_by_items(page) == page.offset + Len(page.items)

\* offset = page.offset + page.limit;
next_offset(page) == page.offset + page.limit

\* Faulty variant: client() is called once, before the loop.
loop_reuses_client == "send"

\* loop { ... self.client().await? ... }: the next iteration starts at client()
loop_head == "get"

\* Faulty variant: a failed page request is retried.
page_error_retries(p) ==
    /\ pc' = [pc EXCEPT ![p] = loop_head]
    /\ status' = [status EXCEPT ![p] = "err"]
    /\ UNCHANGED <<results, limit, offset, lastPage, consistent, outcome>>

\* iter_fn(...).await? returned Err(aspotify::Error): with_paging returns it,
\* converted by From<aspotify::Error>; results is dropped.
page_error(p) ==
    /\ outcome' = [outcome EXCEPT ![p] = Err(From_aspotify_Error)]
    /\ pc' = [pc EXCEPT ![p] = "done"]
    /\ status' = [status EXCEPT ![p] = "err"]
    /\ UNCHANGED <<results, limit, offset, lastPage, consistent>>

\* The rest of one iteration, once the page has arrived.
page_received(p, page) ==
    LET mapped == MapAll(op[p], page.items)
        res == extend(results[p], mapped)
    IN  /\ lastPage' = [lastPage EXCEPT ![p] = PageMeta(page)]
        /\ status' = [status EXCEPT ![p] = "ok"]
        /\ consistent' = [consistent EXCEPT ![p] =
                @ /\ page \in ConsistentPages(list[p], limit[p], offset[p])]
        /\ IF Panics(mapped)
           THEN \* map_fn panicked while results.extend consumed the iterator
                /\ outcome' = [outcome EXCEPT ![p] = Panicked]
                /\ pc' = [pc EXCEPT ![p] = "done"]
                /\ UNCHANGED <<results, limit, offset>>
           ELSE /\ results' = [results EXCEPT ![p] = res]
                /\ IF more(page, res)
                   THEN /\ limit' = [limit EXCEPT ![p] = next_limit(@, page)]
                        /\ offset' = [offset EXCEPT ![p] = next_offset(page)]
                        /\ pc' = [pc EXCEPT ![p] = loop_head]
                        /\ UNCHANGED outcome
                   ELSE \* break; Ok(results)
                        /\ outcome' = [outcome EXCEPT ![p] = Ok(res)]
                        /\ pc' = [pc EXCEPT ![p] = "done"]
                        /\ UNCHANGED <<limit, offset>>

\* let page = iter_fn(client, limit, offset).await?.data; and the rest of the
\* iteration
with_paging(p) ==
    /\ pc[p] = "send"
    /\ op[p] \in PagedOps
    /\ nreq[p] < MaxPages
    /\ nreq' = [nreq EXCEPT ![p] = @ + 1]
    /\ lastReq' = [lastReq EXCEPT ![p] =
            Request(limit[p], offset[p], token, lastPage[p], Len(results[p]))]
    /\ trail' = [trail EXCEPT ![p] = Push3(@, Event("req", token))]
    /\ \/ page_error(p)
       \/ \E page \in Pages(p) : page_received(p, page)
    /\ UNCHANGED <<env, token, nextTok, op, list, acquired, issued>>

load_saved_albums(p) == op[p] = "load_saved_albums" /\ with_paging(p)
load_saved_tracks(p) == op[p] = "load_saved_tracks" /\ with_paging(p)
load_playlists(p) == op[p] = "load_playlists" /\ with_paging(p)
load_playlist_tracks(p) == op[p] = "load_playlist_tracks" /\ with_paging(p)
load_artist_albums(p) == op[p] = "load_artist_albums" /\ with_paging(p)

----------------------------------------------------------------------------
(* The operations that send one request *)

\* self.client().await?.<endpoint>(...).await?.data, converted
single(p, o, lim) ==
    /\ pc[p] = "send"
    /\ op[p] = o
    /\ nreq' = [nreq EXCEPT ![p] = @ + 1]
    /\ lastReq' = [lastReq EXCEPT ![p] = Request(lim, 0, token, NoPage, 0)]
    /\ trail' = [trail EXCEPT ![p] = Push3(@, Event("req", token))]
    /\ \/ /\ outcome' = [outcome EXCEPT ![p] = Err(From_aspotify_Error)]
          /\ status' = [status EXCEPT ![p] = "err"]
       \/ LET mapped == MapAll(o, list[p])
          IN  /\ outcome' = [outcome EXCEPT ![p] =
                    IF Panics(mapped) THEN Panicked
                    ELSE IF o \in SingleDtoOps THEN Ok(mapped[1]) ELSE Ok(mapped)]
              /\ status' = [status EXCEPT ![p] = "ok"]
    /\ pc' = [pc EXCEPT ![p] = "done"]
    /\ UNCHANGED <<env, token, nextTok, op, list, results, limit, offset, acquired,
                   issued, lastPage, consistent>>

load_album(p) == single(p, "load_album", 0)
load_artist(p) == single(p, "load_artist", 0)
load_artist_top_tracks(p) == single(p, "load_artist_top_tracks", 0)
\* .search(query, [Artist, Album, Track], false, 25, 0, None)
search(p) == single(p, "search", 25)
analyze_track(p) == single(p, "analyze_track", 0)

\* reqwest::get(uri).await?.bytes().await?; image::load_from_memory(&image_bytes)?
\* No client() call: the image host is not reached through the API client.
load_image(p) ==
    /\ pc[p] = "fetch"
    /\ op[p] = "load_image"
    /\ trail' = [trail EXCEPT ![p] = Push3(@, Event("http", NoToken))]
    /\ \/ /\ outcome' = [outcome EXCEPT ![p] = Err(From_reqwest_Error)]
          /\ status' = [status EXCEPT ![p] = "err"]
       \/ /\ outcome' = [outcome EXCEPT ![p] = Err(From_image_Error)]
          /\ status' = [status EXCEPT ![p] = "ok"]
       \/ /\ outcome' = [outcome EXCEPT ![p] = Ok([ty |-> "DynamicImage", id |-> 0])]
          /\ status' = [status EXCEPT ![p] = "ok"]
    /\ pc' = [pc EXCEPT ![p] = "done"]
    /\ UNCHANGED <<env, token, nextTok, op, list, results, limit, offset, acquired,
                   issued, nreq, lastReq, lastPage, consistent>>

----------------------------------------------------------------------------
(* Specifications *)

Step(p) ==
    \/ Call(p)
    \/ client_get(p)
    \/ client_set(p)
    \/ load_saved_albums(p)
    \/ load_saved_tracks(p)
    \/ load_playlists(p)
    \/ load_playlist_tracks(p)
    \/ load_artist_albums(p)
    \/ load_album(p)
    \/ load_artist(p)
    \/ load_artist_top_tracks(p)
    \/ search(p)
    \/ analyze_track(p)
    \/ load_image(p)

Next == \E p \in Procs : Step(p)

Spec == Init /\ [][Next]_vars

\* Two concurrent callers.
ConcSpec == InitConc /\ [][Next]_vars

\* The async runtime polls every pending future again, and the token provider
\* and the server answer every call: no caller's next step is postponed forever.
LiveSpec == InitConsistent /\ [][Next]_vars /\ \A p \in Procs : WF_vars(Step(p))

----------------------------------------------------------------------------
(* Properties *)

Paging(p) == op[p] \in PagedOps

\* C1: against a source that answers every page request consistently (the
\* requested offset, the list's length as total, the list's items from that
\* offset up to the reported limit), a with_paging call that returns Ok returns
\* the mapped image of the whole result list, each item once and in order:
\* exactly `total` items.
C1_ReturnsWholeList ==
    \A p \in Procs :
        (Paging(p) /\ consistent[p] /\ pc[p] = "done" /\ outcome[p].kind = "ok")
            => /\ outcome[p].value = MapAll(op[p], list[p])
               /\ Len(outcome[p].value) = lastPage[p].total

C1_Witness ==
    \E p \in Procs :
        /\ Paging(p) /\ consistent[p] /\ pc[p] = "done" /\ outcome[p].kind = "ok"
        /\ Len(list[p]) = MaxTotal /\ nreq[p] = 2 /\ Len(outcome[p].value) = MaxTotal

\* C2: a with_paging call whose source answers consistently reaches its return,
\* and it issues at most max(1, total) page requests on the way.
C2_Terminates ==
    /\ [](\A p \in Procs : (Paging(p) /\ consistent[p])
                => nreq[p] <= (IF Len(list[p]) = 0 THEN 1 ELSE Len(list[p])))
    /\ \A p \in Procs :
          (Paging(p) /\ pc[p] # "done") ~> (pc[p] = "done" \/ ~consistent[p])

C2_Witness ==
    \E p \in Procs :
        /\ Paging(p) /\ consistent[p] /\ pc[p] = "done"
        /\ nreq[p] = MaxTotal /\ lastReq[p].limit = 1 /\ lastPage[p].n = 1

\* C3: every public operation ends in a domain value or a typed error, whatever
\* the response holds.
C3_ValueOrTypedError ==
    \A p \in Procs : pc[p] = "done" => outcome[p].kind \in {"ok", "err"}

\* C4: every request sent to the Web API is immediately preceded, within its
\* operation, by a token acquisition and by the installation of that token in
\* the client, with no other API request in between.
C4_TokenBeforeEachRequest ==
    \A p \in Procs :
        (trail[p] # <<>> /\ trail[p][Len(trail[p])].ev = "req")
            => /\ Len(trail[p]) = 3
               /\ trail[p][1].ev = "get"
               /\ trail[p][2].ev = "set"
               /\ trail[p][2].tok = trail[p][1].tok

C4_Witness ==
    \E p \in Procs :
        /\ Paging(p) /\ nreq[p] = 3
        /\ trail[p][3].ev = "req" /\ trail[p][1] = Event("get", 3)

\* C5: when the token acquisition fails, the operation returns a Web API error
\* wrapping the cause, that client() call sends no API request, and the client's
\* current access token stays as it was.
C5_TokenFailure ==
    [][\A p \in Procs :
        (pc[p] = "get" /\ status'[p] = "token_err")
            => /\ pc'[p] = "done"
               /\ outcome'[p] = Err(WebApiError("token"))
               /\ nreq' = nreq /\ lastReq' = lastReq
               /\ token' = token]_vars

C5_Witness ==
    \E p \in Procs :
        /\ pc[p] = "done" /\ status[p] = "token_err" /\ outcome[p].kind = "err"
        /\ nreq[p] = 1 /\ token # NoToken

\* C6: when a page request of with_paging, or the token acquisition before it,
\* fails, with_paging returns that failure as a Web API error at once, returns
\* none of the accumulated items, and issues no further request.
C6_ErrorsPropagate ==
    [][\A p \in Procs : Paging(p) =>
        /\ (nreq'[p] = nreq[p] + 1 /\ status'[p] = "err")
              => /\ pc'[p] = "done"
                 /\ outcome'[p] = Err(WebApiError("aspotify::Error"))
                 /\ outcome'[p].value = <<>>
        /\ (pc[p] = "get" /\ status'[p] = "token_err")
              => /\ pc'[p] = "done"
                 /\ outcome'[p] = Err(WebApiError("token"))
                 /\ outcome'[p].value = <<>>
        /\ pc[p] = "done"
              => (pc'[p] = "done" /\ nreq'[p] = nreq[p] /\ outcome'[p] = outcome[p])]_vars

C6_Witness ==
    \E p \in Procs :
        /\ Paging(p) /\ pc[p] = "done" /\ status[p] = "err"
        /\ outcome[p] = Err(WebApiError("aspotify::Error"))
        /\ nreq[p] = 2 /\ Len(results[p]) = 2

\* C7 as claimed: the first page request has offset 0, and every page request
\* has limit 50.
C7_EveryLimitIsPageSize ==
    \A p \in Procs :
        (Paging(p) /\ nreq[p] >= 1)
            => /\ lastReq[p].limit = PageSize
               /\ (nreq[p] = 1 => lastReq[p].offset = 0)

\* C7 as amended: the first page request has offset 0 and limit 50; every later
\* page request has the limit the page before it reported.
C7_LimitFollowsPage ==
    \A p \in Procs :
        (Paging(p) /\ nreq[p] >= 1)
            => IF nreq[p] = 1
               THEN lastReq[p].offset = 0 /\ lastReq[p].limit = PageSize
               ELSE lastReq[p].limit = lastReq[p].prev.limit

C7_Witness ==
    \E p \in Procs :
        /\ Paging(p) /\ nreq[p] = 2
        /\ lastReq[p].prev.limit = MaxLimit /\ lastReq[p].limit = MaxLimit

\* C8: every page request after the first has the offset the page before it
\* reported plus that page's reported limit, whatever number of items the page
\* carried.
C8_OffsetAdvancesByLimit ==
    \A p \in Procs :
        (Paging(p) /\ nreq[p] >= 2)
            => lastReq[p].offset = lastReq[p].prev.offset + lastReq[p].prev.limit

C8_Witness ==
    \E p \in Procs :
        /\ Paging(p) /\ nreq[p] = 2
        /\ lastReq[p].prev.offset = 1 /\ lastReq[p].prev.limit = 2
        /\ lastReq[p].prev.n = 1 /\ lastReq[p].offset = 3

C10_RequestsCarryIssuedToken ==
    \A p \in Procs :
        nreq[p] >= 1
            => /\ lastReq[p].token # NoToken
               /\ lastReq[p].token \in UNION {issued[q] : q \in Procs}

C10_Witness ==
    \E p \in Procs : \E q \in Procs \ {p} :
        /\ nreq[p] >= 1 /\ nreq[q] >= 1
        /\ lastReq[p].token \in issued[q]
        /\ lastReq[p].token \notin issued[p]

====
